---- MODULE Spec2Model ----
(***************************************************************************)
(* Verification model of piper: the template projector                     *)
(* (template_projector.py), the transform driver (transform.py), the       *)
(* DewrangleJSON buffered sink (projection_consumers.py) and the           *)
(* ValidateFHIR consumer (consumer_fhir_validate.py).                      *)
(*                                                                         *)
(* The specifications of the module:                                       *)
(*   SinkSpec     - one DewrangleJSON object driven by __call__/__exit__.  *)
(*   ValidateSpec - one ValidateFHIR object driven by __call__.            *)
(*   Spec         - one run of transform.run over a small relational model.*)
(*   ProjectorSpec - process_study / process_subject called in any order   *)
(*                  on one bucket map.                                     *)
(***************************************************************************)
EXTENDS Integers, Sequences, FiniteSets, TLC

VARIABLES
    \* ---- DewrangleJSON (projection_consumers.py) ----
    sink,       \* the object's fields: file, buffersize, resources
    fs,         \* the file named self.filename: does it exist, and its content
    raised,     \* exception raised by the latest call on the sink ("none" if it returned)
    accepted,   \* history: every resource handed to __call__, in call order
    exits,      \* history: number of __exit__ calls made so far
    late,       \* history: number of __call__ calls made after the first __exit__
    lateRaised, \* history: number of those late calls that raised
    closedFs,   \* history: the file as the first __exit__ left it
    exc_type,   \* history: the exc_type the latest __exit__ was given ("None": normal exit)
    \* ---- ValidateFHIR (consumer_fhir_validate.py) ----
    validator,  \* the object's fields: max_validation_count, observed_resource_types
    offered,    \* history: per resource type, the number of __call__ calls
    submitted,  \* history: per resource type, the number of fhir_client.load calls
    \* ---- transform.run and TemplateProjector ----
    model_helpers,      \* config["data_model"]["model_helpers"]
    templates,          \* TemplateProjector.templates: the class names that have a template
    faulty,             \* the class names whose template raises when rendered
    studies,            \* session.query(study_model).all()
    stream,             \* the rows datamodel.stream(subject classname) delivers, in order
    members,            \* rows behind every collection relationship of one instance
    pc,                 \* where run() is: "studies", "subjects", "done", "aborted"
                        \* ("calls" under ProjectorSpec)
    i,                  \* index of the next study of the study loop
                        \* (under ProjectorSpec: 1 + the number of calls made)
    j,                  \* index of the next subject of the stream
    projections,        \* run(): projections
    local_projections,  \* run(): local_projections
    exc,                \* the exception that ended run(), "none" otherwise
    lastCall,           \* history: the latest process_study / process_subject call
    produced            \* history: per key, every document any call appended, in order

sinkVars == <<sink, fs, raised, accepted, exits, late, lateRaised, closedFs, exc_type>>

runVars == <<model_helpers, templates, faulty, studies, stream, members, pc, i, j,
             projections, local_projections, exc, lastCall, produced>>

validateVars == <<validator, offered, submitted>>

vars == <<sinkVars, validateVars, runVars>>

\* An empty dict / defaultdict(list).
EmptyDict == [k \in {} |-> <<>>]

\* No entity (Python None) and a placeholder call record.
NoneObj == [cls |-> <<>>, id |-> 0]
NoCall == [kind |-> "none", anchor |-> NoneObj, study |-> NoneObj,
           before |-> EmptyDict, after |-> EmptyDict, raised |-> "none"]

\* Each specification leaves the objects of the others unused.
RunIdle ==
    /\ model_helpers = EmptyDict /\ templates = {} /\ faulty = {} /\ studies = <<>> /\ stream = <<>>
    /\ members = 0 /\ pc = "idle" /\ i = 1 /\ j = 1
    /\ projections = EmptyDict /\ local_projections = EmptyDict
    /\ exc = "none" /\ lastCall = NoCall /\ produced = EmptyDict

SinkIdle ==
    /\ sink = [file |-> "None", buffersize |-> 1, resources |-> <<>>]
    /\ fs = [exists |-> FALSE, content |-> <<>>, opens |-> 0]
    /\ raised = "none" /\ accepted = <<>> /\ exits = 0 /\ late = 0
    /\ lateRaised = 0 /\ closedFs = fs /\ exc_type = "None"

ValidateIdle ==
    /\ validator = [max_validation_count |-> 0, observed_resource_types |-> EmptyDict]
    /\ offered = EmptyDict /\ submitted = EmptyDict

(***************************************************************************)
(* Bounds                                                                  *)
(***************************************************************************)
MaxBufferSize == 3      \* buffersize ranges over 1..MaxBufferSize
MaxAccepted == 5        \* at most this many __call__ calls
MaxExits == 2           \* at most this many __exit__ calls
MaxStudies == 2         \* the study query returns 0..MaxStudies rows
MaxSubjects == 2        \* the subject stream delivers 0..MaxSubjects rows
MaxMembers == 2         \* a collection relationship holds 0..MaxMembers rows
MaxValidationCount == 2 \* max_validation_count ranges over -1..MaxValidationCount
MaxOffered == 4         \* at most this many ValidateFHIR.__call__ calls
MaxCalls == 2           \* at most this many projector calls on one bucket map

\* Rendered resources handed to the sink (opaque text).
Resources == {"{r1}", "{r2}"}

(***************************************************************************)
(* DewrangleJSON                                                           *)
(*                                                                         *)
(* The file content is the sequence of tokens written so far: each token   *)
(* is one of the literals the code writes ("[\n", ",\n", "\n]") or one     *)
(* resource text.  self.file is "None", "open" or "closed" (a closed file  *)
(* object stays bound to self.file and is truthy).  fs.opens counts the    *)
(* open() calls made on the file.                                          *)
(***************************************************************************)

\* ",\n".join(resources) as tokens
RECURSIVE join(_)
join(rs) ==
    IF Len(rs) = 0 THEN <<>>
    ELSE IF Len(rs) = 1 THEN <<rs[1]>>
    ELSE <<rs[1], ",\n">> \o join(Tail(rs))

\* A call frame: the object, the file system and the pending exception.
Frame(obj, files, e) == [obj |-> obj, fs |-> files, raised |-> e]

\* open(self.filename, "wt"): creates or truncates the file.
open(fr) ==
    Frame([fr.obj EXCEPT !.file = "open"],
          [exists |-> TRUE, content |-> <<>>, opens |-> fr.fs.opens + 1], fr.raised)

\* self.file.write(text): ValueError on a closed file object.
write(fr, toks) ==
    IF fr.raised # "none" THEN fr
    ELSE IF fr.obj.file = "closed" THEN [fr EXCEPT !.raised = "ValueError"]
    ELSE [fr EXCEPT !.fs.content = @ \o toks]

\* A flush that forgets line 42 (self.resources = []).
_dump_buffer_keep(fr) ==
    LET start_with_comma == fr.obj.file # "None"
        f1 == IF fr.obj.file = "None" THEN write(open(fr), <<"[\n">>) ELSE fr
    IN  IF Len(f1.obj.resources) > 0
        THEN write(IF start_with_comma THEN write(f1, <<",\n">>) ELSE f1,
                   join(f1.obj.resources))
        ELSE f1

\* DewrangleJSON._dump_buffer_to_file
_dump_buffer_to_file(fr) ==
    LET start_with_comma == fr.obj.file # "None"
        f1 == IF fr.obj.file = "None" THEN write(open(fr), <<"[\n">>) ELSE fr
        f2 == IF Len(f1.obj.resources) > 0
              THEN write(IF start_with_comma THEN write(f1, <<",\n">>) ELSE f1,
                         join(f1.obj.resources))
              ELSE f1
    IN  IF f2.raised # "none" THEN f2
        ELSE [f2 EXCEPT !.obj.resources = <<>>]

\* DewrangleJSON.__call__
__call__(fr, resource) ==
    LET f1 == [fr EXCEPT !.obj.resources = Append(@, resource)]
    IN  IF Len(f1.obj.resources) >= f1.obj.buffersize
        THEN _dump_buffer_to_file(f1)
        ELSE f1

\* DewrangleJSON.__exit__(exc_type, exc_value, traceback): the arguments are
\* not looked at.
__exit__(fr, et) ==
    IF fr.obj.file # "None"
    THEN LET f1 == write(fr, <<"\n]">>)
         IN  IF f1.raised # "none" THEN f1
             ELSE [f1 EXCEPT !.obj.file = "closed"]
    ELSE fr

\* An __enter__ that creates the file and writes the opening bracket.
SinkInitEager ==
    /\ \E b \in 1..MaxBufferSize :
          sink = [file |-> "open", buffersize |-> b, resources |-> <<>>]
    /\ fs = [exists |-> TRUE, content |-> <<"[\n">>, opens |-> 1]
    /\ raised = "none"
    /\ accepted = <<>>
    /\ exits = 0
    /\ late = 0
    /\ lateRaised = 0
    /\ closedFs = fs
    /\ exc_type = "None"
    /\ RunIdle
    /\ ValidateIdle

\* DewrangleJSON.__init__ (filename, buffersize) followed by __enter__
SinkInit ==
    /\ \E b \in 1..MaxBufferSize :
          sink = [file |-> "None", buffersize |-> b, resources |-> <<>>]
    /\ fs = [exists |-> FALSE, content |-> <<>>, opens |-> 0]
    /\ raised = "none"
    /\ accepted = <<>>
    /\ exits = 0
    /\ late = 0
    /\ lateRaised = 0
    /\ closedFs = fs
    /\ exc_type = "None"
    /\ RunIdle
    /\ ValidateIdle

\* sink(resource)
Call ==
    /\ Len(accepted) < MaxAccepted
    /\ \E r \in Resources :
          LET fr == __call__(Frame(sink, fs, "none"), r)
          IN  /\ sink' = fr.obj
              /\ fs' = fr.fs
              /\ raised' = fr.raised
              /\ accepted' = Append(accepted, r)
              /\ late' = IF exits > 0 THEN late + 1 ELSE late
              /\ lateRaised' = IF exits > 0 /\ fr.raised # "none"
                               THEN lateRaised + 1 ELSE lateRaised
    /\ UNCHANGED <<exits, closedFs, exc_type>>
    /\ UNCHANGED <<runVars, validateVars>>

\* Exceptions the body of the with-block may end with.
ExcTypes == {"None", "Exception"}

\* leaving the with-block, normally (exc_type None) or because the body
\* raised, or any further explicit close
Exit ==
    /\ exits < MaxExits
    /\ \E et \in ExcTypes :
          LET fr == __exit__(Frame(sink, fs, "none"), et)
          IN  /\ sink' = fr.obj
              /\ fs' = fr.fs
              /\ raised' = fr.raised
              /\ closedFs' = IF exits = 0 THEN fr.fs ELSE closedFs
              /\ exc_type' = et
    /\ exits' = exits + 1
    /\ UNCHANGED <<accepted, late, lateRaised>>
    /\ UNCHANGED <<runVars, validateVars>>

SinkNext == Call \/ Exit

SinkSpec == SinkInit /\ [][SinkNext]_vars

(***************************************************************************)
(* Claims about the sink (checked under SinkSpec)                          *)
(***************************************************************************)

\* The text of a JSON array holding docs, in the layout the sink writes.
ArrayText(docs) == <<"[\n">> \o join(docs) \o <<"\n]">>

\* Only __call__s, then exactly one __exit__.
AcceptsThenClose == exits = 1 /\ late = 0

\* C1: after N >= 1 accepts followed by one close, the file holds the array
\* of exactly the N accepted documents in acceptance order, for every
\* capacity, the documents still buffered at close time included.
SinkRoundTrip ==
    (AcceptsThenClose /\ Len(accepted) >= 1)
        => (fs.exists /\ fs.content = ArrayText(accepted))

\* C2: after accepts followed by a close, a second close raises nothing and
\* leaves the file as the first close left it.
SinkIdempotentClose ==
    (exits = 2 /\ late = 0) => (raised = "none" /\ fs = closedFs)

\* C3: every __call__ made after the sink was closed raises an error, at
\* every capacity and buffer fill level.
SinkAcceptAfterCloseRaises == lateRaised = late

\* C12: whenever the with-block was left, normally or by an exception,
\* after at least one document was accepted, the file ends with the closing
\* bracket and the file handle is released.
ScopedCloseOnEveryExit ==
    (exits >= 1 /\ late = 0 /\ Len(accepted) >= 1)
        => /\ fs.exists
           /\ Len(fs.content) >= 1
           /\ fs.content[Len(fs.content)] = "\n]"
           /\ sink.file = "closed"

\* The documents already flushed: the accepted ones that are not buffered.
Written == SubSeq(accepted, 1, Len(accepted) - Len(sink.resources))

\* A comma token at the start, at the end, or next to a bracket or another
\* comma.
StrayComma(content) ==
    \E n \in DOMAIN content :
        /\ content[n] = ",\n"
        /\ \/ n = 1
           \/ n = Len(content)
           \/ content[n - 1] \in {"[\n", ",\n"}
           \/ content[n + 1] \in {",\n", "\n]"}

\* C14: the accepted documents are the flushed ones followed by the
\* buffered ones (a flush empties the buffer, nothing is written twice); the
\* file holds the opening bracket and the flushed documents, each once, in
\* order, separated by single commas (a flush after the first starts with a
\* comma), with no leading, trailing or doubled comma.
FlushSeparatorsNoDoubleWrite ==
    /\ Len(sink.resources) <= Len(accepted)
    /\ accepted = Written \o sink.resources
    /\ ~fs.exists => (Written = <<>> /\ fs.content = <<>>)
    /\ fs.exists =>
          /\ Len(Written) >= 1
          /\ fs.content \in {<<"[\n">> \o join(Written), ArrayText(Written)}
          /\ ~StrayComma(fs.content)

\* Two flushes of more than one document each took place.
FlushSeparatorsWitness ==
    /\ sink.buffersize >= 2
    /\ Len(Written) >= 2 * sink.buffersize
    /\ exits = 0
    /\ fs.content = <<"[\n">> \o join(Written)

\* C15: no file exists before the first flush (the buffer first reaching
\* buffersize), in particular none after __enter__; the file is opened at
\* most once and holds exactly one opening bracket, at its start.
LazyFileCreation ==
    /\ Len(accepted) < sink.buffersize => (~fs.exists /\ sink.file = "None")
    /\ fs.opens <= 1
    /\ fs.exists <=> fs.opens = 1
    /\ fs.exists =>
          /\ fs.content[1] = "[\n"
          /\ Cardinality({n \in DOMAIN fs.content : fs.content[n] = "[\n"}) = 1

\* The sink flushed at least twice.
LazyFileCreationWitness ==
    /\ fs.exists
    /\ exits = 0
    /\ Len(Written) >= 2 * sink.buffersize

\* C16: after every __call__ that returned the buffer holds fewer than
\* buffersize documents, and the buffer never holds more than buffersize
\* documents.
BoundedBuffer ==
    /\ (raised = "none" /\ Len(accepted) >= 1) => Len(sink.resources) < sink.buffersize
    /\ Len(sink.resources) <= sink.buffersize

(***************************************************************************)
(* ValidateFHIR                                                            *)
(*                                                                         *)
(* A resource is its resourceType; the server's answer to a load is the    *)
(* status code of the response.                                            *)
(***************************************************************************)

ResourceTypes == {"Patient", "Observation"}

\* response["status_code"]: successes and failures around the < 300 test.
StatusCodes == {200, 299, 300, 422}

\* defaultdict(int): reading a missing key creates it with 0.
observe(d, key) == IF key \in DOMAIN d THEN d ELSE (key :> 0) @@ d

\* ValidateFHIR.__call__: the object afterwards, and whether the resource
\* was submitted (fhir_client.load called).  The count is read only when
\* max_validation_count >= 1 (`or` short-circuits).
ValidateFHIR__call__(obj, resource_type, status_code) ==
    LET seen == IF obj.max_validation_count < 1 THEN obj.observed_resource_types
                ELSE observe(obj.observed_resource_types, resource_type)
    IN  IF obj.max_validation_count < 1
           \/ seen[resource_type] < obj.max_validation_count
        THEN [obj |-> [obj EXCEPT !.observed_resource_types =
                          IF status_code < 300
                          THEN [observe(seen, resource_type)
                                   EXCEPT ![resource_type] = @ + 1]
                          ELSE seen],
              load |-> TRUE]
        ELSE [obj |-> [obj EXCEPT !.observed_resource_types = seen], load |-> FALSE]

\* ValidateFHIR.__init__ (fhir_config, max_validation_count) and __enter__
ValidateInit ==
    /\ \E m \in -1..MaxValidationCount :
          validator = [max_validation_count |-> m, observed_resource_types |-> EmptyDict]
    /\ offered = [t \in ResourceTypes |-> 0]
    /\ submitted = [t \in ResourceTypes |-> 0]
    /\ SinkIdle
    /\ RunIdle

\* The number of __call__ calls made so far.
Offered == offered["Patient"] + offered["Observation"]

\* validator(resource), the server answering with status code sc
ValidateCall ==
    /\ Offered < MaxOffered
    /\ \E t \in ResourceTypes, sc \in StatusCodes :
          LET out == ValidateFHIR__call__(validator, t, sc)
          IN  /\ validator' = out.obj
              /\ offered' = [offered EXCEPT ![t] = @ + 1]
              /\ submitted' = [submitted EXCEPT ![t] = IF out.load THEN @ + 1 ELSE @]
    /\ UNCHANGED <<sinkVars, runVars>>

ValidateNext == ValidateCall

ValidateSpec == ValidateInit /\ [][ValidateNext]_vars

\* C13: with max_validation_count > 0 at most max_validation_count
\* resources of every type are submitted to the server, whatever the
\* server answers; with max_validation_count < 1 every resource is
\* submitted.
ValidationCap ==
    /\ validator.max_validation_count > 0 =>
          \A t \in ResourceTypes : submitted[t] <= validator.max_validation_count
    /\ validator.max_validation_count < 1 =>
          \A t \in ResourceTypes : submitted[t] = offered[t]

\* The part of C13 the code does keep: at most max_validation_count
\* resources of a type are submitted successfully, and all are submitted
\* without a cap.
ValidationCapOnSuccesses ==
    /\ validator.max_validation_count > 0 =>
          \A t \in DOMAIN validator.observed_resource_types :
              validator.observed_resource_types[t] <= validator.max_validation_count
    /\ validator.max_validation_count < 1 =>
          \A t \in ResourceTypes : submitted[t] = offered[t]

(***************************************************************************)
(* Names                                                                   *)
(*                                                                         *)
(* A Python str is the sequence of its characters, so that to_snake is     *)
(* computed and a class name differs from the variable name derived from   *)
(* it.                                                                     *)
(***************************************************************************)
Study == <<"S", "t", "u", "d", "y">>
Subject == <<"S", "u", "b", "j", "e", "c", "t">>
Group == <<"G", "r", "o", "u", "p">>
Site == <<"S", "i", "t", "e">>
LabTest == <<"L", "a", "b", "T", "e", "s", "t">>
Note == <<"N", "o", "t", "e">>

study_role == <<"s", "t", "u", "d", "y">>
subject_role == <<"s", "u", "b", "j", "e", "c", "t">>
f_groups == <<"g", "r", "o", "u", "p", "s">>
f_site == <<"s", "i", "t", "e">>
f_subject == <<"s", "u", "b", "j", "e", "c", "t">>
f_lab_tests == <<"l", "a", "b", "_", "t", "e", "s", "t", "s">>
f_study == <<"s", "t", "u", "d", "y">>
f_notes == <<"n", "o", "t", "e", "s">>

Classes == {Study, Subject, Group, Site, LabTest, Note}

\* str.lower() on the upper-case letters
lower ==
    ("A" :> "a") @@ ("B" :> "b") @@ ("C" :> "c") @@ ("D" :> "d") @@ ("E" :> "e") @@
    ("F" :> "f") @@ ("G" :> "g") @@ ("H" :> "h") @@ ("I" :> "i") @@ ("J" :> "j") @@
    ("K" :> "k") @@ ("L" :> "l") @@ ("M" :> "m") @@ ("N" :> "n") @@ ("O" :> "o") @@
    ("P" :> "p") @@ ("Q" :> "q") @@ ("R" :> "r") @@ ("S" :> "s") @@ ("T" :> "t") @@
    ("U" :> "u") @@ ("V" :> "v") @@ ("W" :> "w") @@ ("X" :> "x") @@ ("Y" :> "y") @@
    ("Z" :> "z")

isupper(c) == c \in DOMAIN lower

\* camel_converter.to_snake: an underscore before every upper-case letter but
\* the first character, everything lower-cased ("LabTest" -> "lab_test").
RECURSIVE snake_tail(_)
snake_tail(cs) ==
    IF Len(cs) = 0 THEN <<>>
    ELSE (IF isupper(Head(cs)) THEN <<"_", lower[Head(cs)]>> ELSE <<Head(cs)>>)
         \o snake_tail(Tail(cs))

to_snake(name) ==
    IF Len(name) = 0 THEN name
    ELSE <<IF isupper(Head(name)) THEN lower[Head(name)] ELSE Head(name)>>
         \o snake_tail(Tail(name))

(***************************************************************************)
(* The relational model (the SQLAlchemy classes the run is given)          *)
(***************************************************************************)

\* A mapped class itself (rel.mapper.class_), as opposed to its name
\* (related_class.__name__).  A class object is equal to no str, so it is
\* tagged with a token that is no character.
ClassObj(name) == <<"<class>">> \o name

Rel(varname, target, uselist) ==
    [varname |-> varname, target |-> target, uselist |-> uselist]

\* inspect(cls).relationships.items(), in declaration order
relationships(cls) ==
    IF cls = Study
    THEN << Rel(f_groups, Group, TRUE),
            Rel(f_site, Site, FALSE),
            Rel(f_subject, Subject, TRUE) >>
    ELSE IF cls = Subject
    THEN << Rel(f_lab_tests, LabTest, TRUE),
            Rel(f_study, Study, FALSE),
            Rel(f_notes, Note, TRUE) >>
    ELSE <<>>

Inst(cls, id) == [cls |-> cls, id |-> id]

\* The study a subject row belongs to.
HomeStudy(subject) == studies[((subject.id - 1) % Len(studies)) + 1]

\* The rows of a relationship, filtered from a row sequence.
RECURSIVE SubjectsOf(_, _)
SubjectsOf(study, rows) ==
    IF Len(rows) = 0 THEN <<>>
    ELSE (IF HomeStudy(Head(rows)) = study THEN <<Head(rows)>> ELSE <<>>)
         \o SubjectsOf(study, Tail(rows))

\* getattr(instance, varname) for a relationship field
getattr(obj, varname) ==
    IF obj.cls = Study /\ varname = f_groups
    THEN [k \in 1..members |-> Inst(Group, 10 * obj.id + k)]
    ELSE IF obj.cls = Study /\ varname = f_site
    THEN Inst(Site, obj.id)
    ELSE IF obj.cls = Study /\ varname = f_subject
    THEN SubjectsOf(obj, stream)
    ELSE IF obj.cls = Subject /\ varname = f_lab_tests
    THEN [k \in 1..members |-> Inst(LabTest, 10 * obj.id + k)]
    ELSE IF obj.cls = Subject /\ varname = f_study
    THEN HomeStudy(obj)
    ELSE [k \in 1..members |-> Inst(Note, 10 * obj.id + k)]

(***************************************************************************)
(* Bucket maps (defaultdict(list)) and rendered documents                  *)
(***************************************************************************)

\* A lookup that binds the key to a new empty list every time.
touch_fresh(res, key) == (key :> <<>>) @@ res

\* resources[key]: a defaultdict creates the missing key with an empty list
touch(res, key) ==
    IF key \in DOMAIN res THEN res ELSE (key :> <<>>) @@ res

\* Mutant of append: the document is inserted at the head of the list.
append_front(res, key, doc) ==
    [touch(res, key) EXCEPT ![key] = <<doc>> \o @]

\* resources[key].append(doc)
append(res, key, doc) ==
    [touch(res, key) EXCEPT ![key] = Append(@, doc)]

\* d.update(other): every key of other replaces d's value for it
update(d, other) ==
    [k \in DOMAIN d \cup DOMAIN other |-> IF k \in DOMAIN other THEN other[k] ELSE d[k]]

\* template.render(**bindings): the text is a function of the template and
\* of the bindings it is given, nothing else.
render(class_name, bindings) == [template |-> class_name, bindings |-> bindings]

\* A dict display {k1: v1, k2: v2, ...}: a later pair replaces an earlier
\* one with the same key.
RECURSIVE dict(_)
dict(pairs) ==
    IF Len(pairs) = 0 THEN EmptyDict
    ELSE LET last == pairs[Len(pairs)]
         IN  (last[1] :> last[2]) @@ dict(SubSeq(pairs, 1, Len(pairs) - 1))

\* The outcome of a call: the bucket map as the call left it, and the
\* exception it raised ("none" when it returned).
Outcome(res, e) == [res |-> res, raised |-> e]

(***************************************************************************)
(* TemplateProjector                                                       *)
(***************************************************************************)

\* render_object, from "template = self.templates[class_name]" on: the
\* variable names are derived and the template rendered with two or three
\* bindings.
render_bound(obj, study, study_subject, cn) ==
    LET varname == to_snake(cn)
        study_varname == to_snake(study.cls)
        subject_varname == to_snake(study_subject.cls)
    IN  IF study_subject # NoneObj
        THEN render(cn, dict(<< <<varname, obj>>,
                                <<study_varname, study>>,
                                <<subject_varname, study_subject>> >>))
        ELSE render(cn, dict(<< <<varname, obj>>,
                                <<study_varname, study>> >>))

\* Mutant of render_object: a class without a template is not reported.
render_object_no_check(obj, study, study_subject, class_name) ==
    LET cn == IF class_name = <<>> THEN obj.cls ELSE class_name
    IN  IF cn \in faulty
        THEN [raised |-> "TemplateError", doc |-> render(cn, EmptyDict)]
        ELSE [raised |-> "none", doc |-> render_bound(obj, study, study_subject, cn)]

\* TemplateProjector.render_object: [raised, doc]; class_name <<>> stands
\* for the default None.  template.render raises for a faulty template.
render_object(obj, study, study_subject, class_name) ==
    LET cn == IF class_name = <<>> THEN obj.cls ELSE class_name
    IN  IF cn \notin templates
        THEN [raised |-> "ValueError", doc |-> render(cn, EmptyDict)]
        ELSE IF cn \in faulty
        THEN [raised |-> "TemplateError", doc |-> render(cn, EmptyDict)]
        ELSE [raised |-> "none", doc |-> render_bound(obj, study, study_subject, cn)]

\* TemplateProjector.black_list
black_list(model_component) ==
    DOMAIN model_helpers \cup
        (IF model_component \in DOMAIN model_helpers
         THEN model_helpers[model_component].blacklist
         ELSE {})

\* process_study, the body of "for item in items": resources[varname] is
\* looked up, then template.render_object is evaluated; template is a
\* jinja2 Template, which has no such attribute.
study_items(res, study, rel, items) ==
    IF Len(items) = 0 THEN Outcome(res, "none")
    ELSE Outcome(touch(res, rel.varname), "AttributeError")

\* Mutant of study_edge: the loop body that tests the template by class
\* name and renders the items through the projector, without the
\* blacklist test.
RECURSIVE study_items_rendered(_, _, _, _)
study_items_rendered(out, study, rel, items) ==
    IF out.raised # "none" \/ Len(items) = 0 THEN out
    ELSE LET r == render_object(Head(items), study, NoneObj, rel.target)
         IN  study_items_rendered(
                 IF r.raised # "none"
                 THEN Outcome(touch(out.res, rel.varname), r.raised)
                 ELSE Outcome(append(out.res, rel.varname, r.doc), "none"),
                 study, rel, Tail(items))

study_edge_no_blacklist(res, study, rel) ==
    IF rel.target \in templates
    THEN study_items_rendered(Outcome(res, "none"), study, rel,
                              IF rel.uselist THEN getattr(study, rel.varname)
                              ELSE <<getattr(study, rel.varname)>>)
    ELSE Outcome(res, "none")

\* process_study, the body of the loop over the relationships.  The
\* membership test is made with the class object, not with its name; the
\* loop over the items is nested in the uselist branch.
study_edge(res, study, rel) ==
    LET related_class == ClassObj(rel.target)
        blacklist == black_list(study_role)
    IN  IF related_class \in templates /\ rel.varname \notin blacklist /\ rel.uselist
        THEN study_items(res, study, rel, getattr(study, rel.varname))
        ELSE Outcome(res, "none")

RECURSIVE study_relationships(_, _, _)
study_relationships(out, study, rels) ==
    IF out.raised # "none" \/ Len(rels) = 0 THEN out
    ELSE study_relationships(study_edge(out.res, study, Head(rels)), study, Tail(rels))

\* TemplateProjector.process_study
process_study(study, res) ==
    LET study_classname == study.cls
        study_varname == to_snake(study_classname)
    IN  IF study_classname \notin templates
        THEN Outcome(res, "KeyError")
        ELSE IF study_classname \in faulty
        THEN Outcome(touch(res, study_varname), "TemplateError")
        ELSE study_relationships(
                Outcome(append(res, study_varname,
                               render(study_classname, dict(<< <<study_varname, study>> >>))),
                        "none"),
                study, relationships(study_classname))

\* Mutant of subject_bucket_key: the bucket is keyed by the field name,
\* as process_study does.
subject_bucket_key_field(rel) == rel.varname

\* process_subject: the bucket of a related item,
\* resources[to_snake(related_class.__name__)]
subject_bucket_key(rel) == to_snake(rel.target)

\* process_subject: every related item rendered and appended
RECURSIVE subject_items(_, _, _, _, _)
subject_items(out, subject, study, rel, items) ==
    IF out.raised # "none" \/ Len(items) = 0 THEN out
    ELSE LET key == subject_bucket_key(rel)
             r == render_object(Head(items), study, subject, rel.target)
             nxt == IF r.raised # "none"
                    THEN Outcome(touch(out.res, key), r.raised)
                    ELSE Outcome(append(out.res, key, r.doc), "none")
         IN  subject_items(nxt, subject, study, rel, Tail(items))

\* A loop body that consults the subject blacklist as process_study
\* consults the study blacklist.
subject_edge_blacklisted(res, subject, study, rel) ==
    IF rel.target \in templates /\ rel.varname \notin black_list(subject_role)
    THEN subject_items(Outcome(res, "none"), subject, study, rel,
                       IF rel.uselist THEN getattr(subject, rel.varname)
                       ELSE <<getattr(subject, rel.varname)>>)
    ELSE Outcome(res, "none")

\* process_subject, the body of the loop over the relationships
subject_edge(res, subject, study, rel) ==
    IF rel.target \in templates
    THEN subject_items(Outcome(res, "none"), subject, study, rel,
                       IF rel.uselist THEN getattr(subject, rel.varname)
                       ELSE <<getattr(subject, rel.varname)>>)
    ELSE Outcome(res, "none")

RECURSIVE subject_relationships(_, _, _, _)
subject_relationships(out, subject, study, rels) ==
    IF out.raised # "none" \/ Len(rels) = 0 THEN out
    ELSE subject_relationships(subject_edge(out.res, subject, study, Head(rels)),
                               subject, study, Tail(rels))

\* TemplateProjector.process_subject
process_subject(subject, study, res) ==
    LET subject_varname == to_snake(subject.cls)
        r == render_object(subject, study, NoneObj, <<>>)
    IN  IF r.raised # "none"
        THEN Outcome(touch(res, subject_varname), r.raised)
        ELSE subject_relationships(Outcome(append(res, subject_varname, r.doc), "none"),
                                   subject, study, relationships(subject.cls))

(***************************************************************************)
(* transform.run                                                           *)
(***************************************************************************)

\* What a call appended: per key, the documents after the ones held before.
Added(before, after) ==
    [k \in DOMAIN after |->
        SubSeq(after[k], (IF k \in DOMAIN before THEN Len(before[k]) ELSE 0) + 1,
               Len(after[k]))]

Record(log, before, after) ==
    LET add == Added(before, after)
    IN  [k \in DOMAIN log \cup DOMAIN add |->
            (IF k \in DOMAIN log THEN log[k] ELSE <<>>)
            \o (IF k \in DOMAIN add THEN add[k] ELSE <<>>)]

\* The templates that may fault at render time (an undefined binding, a
\* fault of the template's own logic): a related class and an anchor class.
FaultyCandidates == {LabTest, Subject}

\* run() up to the study loop: configuration read, templates loaded, the
\* studies fetched; the subject stream will deliver `stream`.
Init ==
    /\ SinkIdle
    /\ ValidateIdle
    /\ \E bl \in SUBSET {f_groups, f_site} :
          model_helpers =
              (study_role :> [classname |-> Study, blacklist |-> bl]) @@
              (subject_role :> [classname |-> Subject, blacklist |-> {f_lab_tests}])
    /\ templates \in SUBSET Classes
    /\ faulty \in SUBSET (FaultyCandidates \cap templates)
    /\ \E n \in 0..MaxStudies : studies = [k \in 1..n |-> Inst(Study, k)]
    /\ \E n \in 0..MaxSubjects : stream = [k \in 1..n |-> Inst(Subject, k)]
    /\ members \in 0..MaxMembers
    /\ pc = "studies"
    /\ i = 1
    /\ j = 1
    /\ projections = EmptyDict
    /\ local_projections = EmptyDict
    /\ exc = "none"
    /\ lastCall = NoCall
    /\ produced = EmptyDict

config == <<model_helpers, templates, faulty, studies, stream, members>>

\* One pass of "for study in studies".
ProcessStudy ==
    /\ pc = "studies"
    /\ i <= Len(studies)
    /\ LET out == process_study(studies[i], EmptyDict)
       IN  /\ lastCall' = [kind |-> "study", anchor |-> studies[i], study |-> studies[i],
                           before |-> EmptyDict, after |-> out.res, raised |-> out.raised]
           /\ produced' = Record(produced, EmptyDict, out.res)
           /\ local_projections' = out.res
           /\ IF out.raised # "none"
              THEN /\ pc' = "aborted"
                   /\ exc' = out.raised
                   /\ UNCHANGED <<projections, i>>
              ELSE /\ projections' = update(projections, out.res)
                   /\ i' = i + 1
                   /\ UNCHANGED <<pc, exc>>
    /\ UNCHANGED <<config, j>>
    /\ UNCHANGED <<sinkVars, validateVars>>

\* The study loop is over: a fresh local_projections, the stream is opened.
BeginSubjects ==
    /\ pc = "studies"
    /\ i > Len(studies)
    /\ local_projections' = EmptyDict
    /\ pc' = "subjects"
    /\ UNCHANGED <<config, i, j, projections, exc, lastCall, produced>>
    /\ UNCHANGED <<sinkVars, validateVars>>

\* A driver that anchors the subjects to the last fetched study.
last_study(rows) == rows[Len(rows)]

\* studies[0], the study every subject is projected with
first_study(rows) == rows[1]

\* One pass of "for subject in datamodel.stream(...)"; studies[0] raises
\* IndexError when no study was fetched.
ProcessSubject ==
    /\ pc = "subjects"
    /\ j <= Len(stream)
    /\ IF Len(studies) = 0
       THEN /\ pc' = "aborted"
            /\ exc' = "IndexError"
            /\ UNCHANGED <<j, local_projections, lastCall, produced>>
       ELSE LET study == first_study(studies)
                out == process_subject(stream[j], study, local_projections)
            IN  /\ lastCall' = [kind |-> "subject", anchor |-> stream[j],
                                study |-> study, before |-> local_projections,
                                after |-> out.res, raised |-> out.raised]
                /\ produced' = Record(produced, local_projections, out.res)
                /\ local_projections' = out.res
                /\ IF out.raised # "none"
                   THEN /\ pc' = "aborted"
                        /\ exc' = out.raised
                        /\ UNCHANGED j
                   ELSE /\ j' = j + 1
                        /\ UNCHANGED <<pc, exc>>
    /\ UNCHANGED <<config, i, projections>>
    /\ UNCHANGED <<sinkVars, validateVars>>

\* The stream is exhausted: the subject phase is merged.
FinishRun ==
    /\ pc = "subjects"
    /\ j > Len(stream)
    /\ projections' = update(projections, local_projections)
    /\ pc' = "done"
    /\ UNCHANGED <<config, i, j, local_projections, exc, lastCall, produced>>
    /\ UNCHANGED <<sinkVars, validateVars>>

Next == ProcessStudy \/ BeginSubjects \/ ProcessSubject \/ FinishRun

Spec == Init /\ [][Next]_vars

(***************************************************************************)
(* The projector called directly                                           *)
(*                                                                         *)
(* A caller holding one TemplateProjector and one defaultdict(list)        *)
(* (local_projections) calls process_study and process_subject on it in    *)
(* any order, with any of the studies and subjects, going on after a call  *)
(* that raised.                                                            *)
(***************************************************************************)

ProjectorInit ==
    /\ SinkIdle
    /\ ValidateIdle
    /\ model_helpers =
          (study_role :> [classname |-> Study, blacklist |-> {f_groups}]) @@
          (subject_role :> [classname |-> Subject, blacklist |-> {f_lab_tests}])
    /\ \E missing \in SUBSET {Note, Subject} : templates = Classes \ missing
    /\ faulty \in SUBSET (FaultyCandidates \cap templates)
    /\ \E n \in 1..MaxStudies : studies = [k \in 1..n |-> Inst(Study, k)]
    /\ \E n \in 1..MaxSubjects : stream = [k \in 1..n |-> Inst(Subject, k)]
    /\ members \in 0..MaxMembers
    /\ pc = "calls"
    /\ i = 1
    /\ j = 1
    /\ projections = EmptyDict
    /\ local_projections = EmptyDict
    /\ exc = "none"
    /\ lastCall = NoCall
    /\ produced = EmptyDict

\* projector.process_study(study, resources=local_projections)
CallProcessStudy ==
    /\ pc = "calls"
    /\ i <= MaxCalls
    /\ \E n \in DOMAIN studies :
          LET out == process_study(studies[n], local_projections)
          IN  /\ lastCall' = [kind |-> "study", anchor |-> studies[n],
                              study |-> studies[n], before |-> local_projections,
                              after |-> out.res, raised |-> out.raised]
              /\ produced' = Record(produced, local_projections, out.res)
              /\ local_projections' = out.res
              /\ exc' = out.raised
    /\ i' = i + 1
    /\ UNCHANGED <<config, pc, j, projections>>
    /\ UNCHANGED <<sinkVars, validateVars>>

\* projector.process_subject(subject, study=study, resources=local_projections)
CallProcessSubject ==
    /\ pc = "calls"
    /\ i <= MaxCalls
    /\ \E n \in DOMAIN stream, m \in DOMAIN studies :
          LET out == process_subject(stream[n], studies[m], local_projections)
          IN  /\ lastCall' = [kind |-> "subject", anchor |-> stream[n],
                              study |-> studies[m], before |-> local_projections,
                              after |-> out.res, raised |-> out.raised]
              /\ produced' = Record(produced, local_projections, out.res)
              /\ local_projections' = out.res
              /\ exc' = out.raised
    /\ i' = i + 1
    /\ UNCHANGED <<config, pc, j, projections>>
    /\ UNCHANGED <<sinkVars, validateVars>>

ProjectorNext == CallProcessStudy \/ CallProcessSubject

ProjectorSpec == ProjectorInit /\ [][ProjectorNext]_vars

(***************************************************************************)
(* Claims about the projector and the driver (checked under Spec)          *)
(***************************************************************************)

Range(f) == {f[x] : x \in DOMAIN f}

Count(docs, d) == Cardinality({n \in DOMAIN docs : docs[n] = d})

Bucket(res, k) == IF k \in DOMAIN res THEN res[k] ELSE <<>>

RECURSIVE Flatten(_)
Flatten(ss) == IF Len(ss) = 0 THEN <<>> ELSE Head(ss) \o Flatten(Tail(ss))

\* a is b with some elements left out
RECURSIVE IsSubseq(_, _)
IsSubseq(a, b) ==
    IF Len(a) = 0 THEN TRUE
    ELSE IF Len(b) = 0 THEN FALSE
    ELSE IF Head(a) = Head(b) THEN IsSubseq(Tail(a), Tail(b))
    ELSE IsSubseq(a, Tail(b))

\* The instances behind a relationship edge: the one instance of a singular
\* edge, every member of a collection edge.
Items(obj, rel) ==
    IF rel.uselist THEN getattr(obj, rel.varname) ELSE <<getattr(obj, rel.varname)>>

RelSet(cls) == Range(relationships(cls))

\* The study blacklist: the configured one plus every anchor-role name.
StudyBlacklist == model_helpers[study_role].blacklist \cup DOMAIN model_helpers

InStudyScope(rel) == rel.varname \notin StudyBlacklist /\ rel.target \in templates

\* The documents the two modes are to produce.
StudyOwnDoc(study) == render(study.cls, to_snake(study.cls) :> study)

StudyModeDoc(item, study, rel) ==
    render(rel.target, (to_snake(rel.target) :> item) @@ (to_snake(study.cls) :> study))

SubjectOwnDoc(subject, study) ==
    render(subject.cls,
           (to_snake(subject.cls) :> subject) @@ (to_snake(study.cls) :> study))

\* Where the names coincide the anchors take the name.
SubjectModeDoc(item, subject, study, rel) ==
    render(rel.target,
           (to_snake(subject.cls) :> subject) @@ (to_snake(study.cls) :> study)
               @@ (to_snake(rel.target) :> item))

\* The documents of a bucket map that come from the instances behind rel.
DocsOfField(res, obj, rel) ==
    {d \in UNION {Range(res[k]) : k \in DOMAIN res} :
        /\ d.template = rel.target
        /\ \E n \in DOMAIN Items(obj, rel) : Items(obj, rel)[n] \in Range(d.bindings)}

StudyModeProjection ==
    (lastCall.kind = "study" /\ lastCall.anchor.cls \in templates) =>
        /\ lastCall.raised = "none"
        /\ Bucket(lastCall.after, to_snake(lastCall.anchor.cls))
              = <<StudyOwnDoc(lastCall.anchor)>>
        /\ \A rel \in RelSet(lastCall.anchor.cls) :
              InStudyScope(rel) =>
                  Bucket(lastCall.after, rel.varname) =
                      [n \in DOMAIN Items(lastCall.anchor, rel) |->
                          StudyModeDoc(Items(lastCall.anchor, rel)[n], lastCall.anchor, rel)]

\* The entities process_subject is to render into bucket k, in order: the
\* subject itself, then the instances of every edge to a templated class.
SubjectEntries(subject, k) ==
    LET rels == relationships(subject.cls)
    IN  (IF k = to_snake(subject.cls)
         THEN <<[cls |-> subject.cls, obj |-> subject, related |-> FALSE]>>
         ELSE <<>>)
        \o Flatten([n \in DOMAIN rels |->
              IF rels[n].target \in templates /\ to_snake(rels[n].target) = k
              THEN [m \in DOMAIN Items(subject, rels[n]) |->
                      [cls |-> rels[n].target, obj |-> Items(subject, rels[n])[m],
                       related |-> TRUE]]
              ELSE <<>>])

\* Document d renders entity e for the anchors: the subject's own document
\* binds the subject and the study; a related document binds the subject,
\* the study and (its class being neither anchor class) the instance.
DocFits(d, e, subject, study) ==
    IF ~e.related THEN d = SubjectOwnDoc(subject, study)
    ELSE /\ d.template = e.cls
         /\ DOMAIN d.bindings =
               {to_snake(e.cls), to_snake(study.cls), to_snake(subject.cls)}
         /\ d.bindings[to_snake(subject.cls)] = subject
         /\ d.bindings[to_snake(study.cls)] = study
         /\ e.cls \notin {study.cls, subject.cls} => d.bindings[to_snake(e.cls)] = e.obj

\* C6: process_subject appends render(subject) to the bucket keyed by the
\* subject's variable name and, for every edge whose target class has a
\* template, one document per related instance to the bucket keyed by the
\* snake-cased class name, each bound to the subject, the study and the
\* instance; nothing else is appended.
SubjectModeProjection ==
    (lastCall.kind = "subject" /\ lastCall.raised = "none") =>
        LET add == Added(lastCall.before, lastCall.after)
        IN  /\ \A k \in DOMAIN lastCall.before :
                  /\ k \in DOMAIN lastCall.after
                  /\ Len(lastCall.after[k]) >= Len(lastCall.before[k])
                  /\ SubSeq(lastCall.after[k], 1, Len(lastCall.before[k]))
                        = lastCall.before[k]
            /\ \A k \in DOMAIN add \cup {to_snake(c) : c \in Classes} :
                  LET want == SubjectEntries(lastCall.anchor, k)
                      got == Bucket(add, k)
                  IN  /\ Len(got) = Len(want)
                      /\ \A n \in DOMAIN want :
                            DocFits(got[n], want[n], lastCall.anchor, lastCall.study)

\* A second subject was projected onto a non-empty map, with a collection
\* edge of two members to a templated class.
SubjectModeWitness ==
    /\ lastCall.kind = "subject"
    /\ lastCall.raised = "none"
    /\ lastCall.before # EmptyDict
    /\ LabTest \in templates
    /\ Len(Bucket(Added(lastCall.before, lastCall.after), to_snake(LabTest))) >= 2

\* C7: process_study on a study whose class has no template, and
\* process_subject on a subject whose class has no template, end in an
\* error that ends the run, and add no document to any bucket.
MissingAnchorTemplateFatal ==
    (lastCall.kind \in {"study", "subject"} /\ lastCall.anchor.cls \notin templates) =>
        /\ lastCall.raised # "none"
        /\ pc = "aborted"
        /\ exc = lastCall.raised
        /\ \A k \in DOMAIN lastCall.after :
              Bucket(Added(lastCall.before, lastCall.after), k) = <<>>

\* process_subject was called on a subject whose class has no template,
\* after a study was projected.
MissingAnchorTemplateWitness ==
    /\ lastCall.kind = "subject"
    /\ lastCall.anchor.cls \notin templates
    /\ projections # EmptyDict

\* C8: after a complete run, every instance of a templated class reachable
\* from a study or a subject through one in-scope edge has exactly one
\* rendered document in the bucket of that edge.
ExactlyOncePerEdge ==
    pc = "done" =>
        /\ \A s \in Range(studies) : \A rel \in RelSet(s.cls) :
              InStudyScope(rel) =>
                  \A n \in DOMAIN Items(s, rel) :
                      Count(Bucket(projections, rel.varname),
                            StudyModeDoc(Items(s, rel)[n], s, rel)) = 1
        /\ \A p \in Range(stream) : \A rel \in RelSet(p.cls) :
              rel.target \in templates =>
                  \A n \in DOMAIN Items(p, rel) :
                      Count(Bucket(projections, to_snake(rel.target)),
                            SubjectModeDoc(Items(p, rel)[n], p, studies[1], rel)) = 1

\* C9: after the driver processed all studies and all subjects, the merged
\* map holds every document every process_study and process_subject call
\* produced.
MergeLossless ==
    pc = "done" =>
        \A k \in DOMAIN produced : IsSubseq(produced[k], Bucket(projections, k))

\* The visitation order restricted to bucket k: studies in fetch order, each
\* followed by its relations; then subjects in delivery order, each followed
\* by its relations; relations in declaration order, members in collection
\* order.
StudyVisit(s, k) ==
    LET rels == relationships(s.cls)
    IN  (IF k = to_snake(s.cls) THEN <<StudyOwnDoc(s)>> ELSE <<>>)
        \o Flatten([n \in DOMAIN rels |->
              IF InStudyScope(rels[n]) /\ rels[n].varname = k
              THEN [m \in DOMAIN Items(s, rels[n]) |->
                      StudyModeDoc(Items(s, rels[n])[m], s, rels[n])]
              ELSE <<>>])

SubjectVisit(p, study, k) ==
    LET rels == relationships(p.cls)
    IN  (IF k = to_snake(p.cls) THEN <<SubjectOwnDoc(p, study)>> ELSE <<>>)
        \o Flatten([n \in DOMAIN rels |->
              IF rels[n].target \in templates /\ to_snake(rels[n].target) = k
              THEN [m \in DOMAIN Items(p, rels[n]) |->
                      SubjectModeDoc(Items(p, rels[n])[m], p, study, rels[n])]
              ELSE <<>>])

VisitOrder(k) ==
    Flatten([n \in DOMAIN studies |-> StudyVisit(studies[n], k)])
    \o Flatten([n \in DOMAIN stream |-> SubjectVisit(stream[n], studies[1], k)])

\* C10: within every bucket of the final map the documents appear in the
\* order they were visited.
BucketOrderIsVisitOrder ==
    pc = "done" =>
        \A k \in DOMAIN projections : IsSubseq(projections[k], VisitOrder(k))

\* A complete run over two studies whose final map has a bucket of at least
\* four documents from two subjects.
BucketOrderWitness ==
    /\ pc = "done"
    /\ Len(studies) >= 2
    /\ Len(stream) >= 2
    /\ \E k \in DOMAIN projections : Len(projections[k]) >= 4

\* C11: every document render_object produced binds the rendered entity
\* under its snake-cased class name, the study anchor under the study's
\* name and, when a subject anchor was passed, the subject anchor under the
\* subject's name, also when the entity's class is the study's or the
\* subject's class.
RenderObjectBindings ==
    (lastCall.kind = "subject" /\ lastCall.raised = "none") =>
        \A k \in DOMAIN lastCall.after :
            LET want == SubjectEntries(lastCall.anchor, k)
                got == Bucket(Added(lastCall.before, lastCall.after), k)
            IN  \A n \in DOMAIN want \cap DOMAIN got :
                    /\ got[n].bindings[to_snake(want[n].cls)] = want[n].obj
                    /\ got[n].bindings[to_snake(lastCall.study.cls)] = lastCall.study
                    /\ want[n].related =>
                          got[n].bindings[to_snake(lastCall.anchor.cls)] = lastCall.anchor

\* The documents of template cls a call appended, over all buckets.
AddedOfClass(cls) ==
    LET add == Added(lastCall.before, lastCall.after)
    IN  {<<k, n>> \in UNION {{k} \X DOMAIN add[k] : k \in DOMAIN add} :
            add[k][n].template = cls}

\* C17: process_subject renders the instances behind an edge exactly when
\* the edge's target class has a template: one document per instance of a
\* templated edge, whatever the field is called and whatever the
\* blacklists hold, and neither a document nor an error for an edge to a
\* class without a template.
SubjectScopeIsTemplatePresence ==
    (lastCall.kind = "subject" /\ lastCall.anchor.cls \in templates) =>
        /\ faulty = {} => lastCall.raised = "none"
        /\ lastCall.raised = "none" =>
              \A rel \in RelSet(lastCall.anchor.cls) :
                  Cardinality(AddedOfClass(rel.target)) =
                      IF rel.target \in templates
                      THEN Len(Items(lastCall.anchor, rel))
                      ELSE 0

\* process_subject returned for a subject with a templated edge named in
\* the configured subject blacklist, a templated edge with an anchor-role
\* name and an edge to a class without a template, all with instances.
SubjectScopeWitness ==
    /\ lastCall.kind = "subject"
    /\ lastCall.raised = "none"
    /\ f_lab_tests \in model_helpers[subject_role].blacklist
    /\ f_study \in DOMAIN model_helpers
    /\ {LabTest, Study} \subseteq templates
    /\ Note \notin templates
    /\ members >= 1
    /\ Cardinality(AddedOfClass(LabTest)) = members
    /\ Cardinality(AddedOfClass(Study)) = 1

\* C18: a render failure of a related document does not end the run: after
\* a call in which a template other than the anchor's own raised, the run
\* goes on.
RenderFailureContained ==
    (/\ lastCall.kind \in {"study", "subject"}
     /\ lastCall.raised = "TemplateError"
     /\ lastCall.anchor.cls \notin faulty)
        => pc # "aborted"

\* C20: every process_subject call of the run is made with studies[0] as
\* its study, and its documents bind the study name to studies[0]; a run
\* with no study and at least one streamed subject ends with an error
\* (IndexError) without any process_subject call or subject document.
SubjectAnchorIsFirstStudy ==
    /\ lastCall.kind = "subject" =>
          /\ lastCall.study = studies[1]
          /\ \A k \in DOMAIN lastCall.after : \A n \in DOMAIN lastCall.after[k] :
                lastCall.after[k][n].bindings[to_snake(Study)] = studies[1]
    /\ (Len(studies) = 0 /\ Len(stream) >= 1 /\ pc \notin {"studies", "subjects"}) =>
          /\ pc = "aborted"
          /\ exc = "IndexError"
          /\ lastCall.kind = "none"
          /\ local_projections = EmptyDict
          /\ produced = EmptyDict

\* With two studies, the second subject (whose own study is the second)
\* was projected.
SubjectAnchorWitness ==
    /\ lastCall.kind = "subject"
    /\ lastCall.raised = "none"
    /\ Len(studies) >= 2
    /\ HomeStudy(lastCall.anchor) # studies[1]
    /\ Len(Bucket(lastCall.after, to_snake(Subject))) >= 2

(***************************************************************************)
(* Claims about the projector called directly (checked under               *)
(* ProjectorSpec)                                                          *)
(***************************************************************************)

\* C19: a process_study or process_subject call only appends: every key
\* the map held before the call is held after it, with the sequence held
\* before as a prefix of the sequence held after, whether the call returned
\* or raised; over the whole sequence of calls the map holds, per key, all
\* documents ever appended, in the order they were appended.
AppendOnlyProjection ==
    /\ lastCall.kind # "none" =>
          \A k \in DOMAIN lastCall.before :
              /\ k \in DOMAIN lastCall.after
              /\ Len(lastCall.before[k]) <= Len(lastCall.after[k])
              /\ SubSeq(lastCall.after[k], 1, Len(lastCall.before[k])) = lastCall.before[k]
    /\ \A k \in DOMAIN produced :
          /\ k \in DOMAIN local_projections
          /\ local_projections[k] = produced[k]

\* process_study and process_subject were each called on a map that held
\* documents, and the latest call added to a bucket that was not empty.
AppendOnlyWitness ==
    /\ i > MaxCalls
    /\ lastCall.raised = "none"
    /\ \E k \in DOMAIN lastCall.before :
          /\ Len(lastCall.before[k]) >= 1
          /\ Len(lastCall.after[k]) > Len(lastCall.before[k])

====
